---- MODULE Spec2Model ----
(***************************************************************************)
(* Read-side comment views of crates/db_views/src/comment_view.rs:         *)
(* CommentView::read, CommentQueryBuilder (the setters and list) and       *)
(* ViewToVec::from_tuple_to_vec, over the tables the queries join.  The    *)
(* tables are written by external collaborators (Like, Block, Follow, ...) *)
(* and only read by the two queries.                                       *)
(***************************************************************************)
EXTENDS Integers, Sequences, FiniteSets, TLC

\* ------------------------------------------------------------------ bounds
\* Comments a store holds, and comments of the store whose tree is listed.
MaxComments == 3
MaxTreeComments == 5
\* Records each side table holds: votes, blocks (of persons, of communities),
\* follows, bans, saves.
MaxVotes == 2
MaxBlocks == 1
MaxFollows == 2
MaxBans == 2
MaxSaves == 1
\* Days the clock moves on from its start.
MaxTime == 2
\* Page numbers and page sizes a listing asks for.
MaxPage == 3
MaxLimit == 2
\* Setter calls a caller makes on one builder.
MaxCalls == 2
\* Comments of the store whose side records of every kind are written.
MaxViewedComments == 1

\* ------------------------------------------------------- program constants
\* PersonId(-1): the person id the joins use when no viewer is given.
NoPersonId == -1
\* The trailing windows of the Top* sorts, in days (a calendar month and a
\* calendar year are taken at 30 and 365 days).
Days1 == 1
Weeks1 == 7
Months1 == 30
Years1 == 365
\* The page size used when no limit is configured.
FETCH_LIMIT_DEFAULT == 10

\* ----------------------------------------------------------------- Option
None == <<>>
Some(x) == <<x>>
IsSome(o) == o # <<>>
IsNone(o) == o = <<>>
Unwrap(o) == o[1]
UnwrapOr(o, d) == IF o = <<>> THEN d ELSE o[1]
OptionOf(S) == {None} \cup {Some(x) : x \in S}

Ok(v) == [ok |-> TRUE, val |-> v]
Err(e) == [ok |-> FALSE, err |-> e]

\* The persons and communities of the store: two of each, as the tests have
\* two persons; post p belongs to community p.
PersonIds == {1, 2}
CommunityIds == {1, 2}
PostIds == CommunityIds
CommentIds == 1..MaxComments
Scores == {-1, 0, 1}

\* Characters of comment content and search terms: 1..2 are the lower-case
\* letters a, b; 11..12 their upper-case forms A, B.
Lower(ch) == IF ch > 10 THEN ch - 10 ELSE ch
LowerStr(s) == [i \in 1..Len(s) |-> Lower(s[i])]

VARIABLES
  person,               \* person id -> [bot_account]
  community,            \* community id -> [hidden, local, actor_id]
  post,                 \* post id -> [community_id]
  comment,              \* comment id -> [creator_id, post_id, path, published, content]
  comment_aggregates,   \* comment id -> [score, published]
  community_person_ban, \* set of [community_id, person_id, expires]
  community_follower,   \* set of [community_id, person_id, pending]
  comment_saved,        \* set of [comment_id, person_id]
  person_block,         \* set of [person_id, target_id]
  community_block,      \* set of [person_id, community_id]
  comment_like,         \* set of [person_id, comment_id, score]
  now,                  \* the store's clock, in days
  builder,              \* the CommentQueryBuilder a caller is configuring
  calls,                \* the setter calls made on it: <<field, value>> each
  ret                   \* what the last read() or list() returned; a write
                        \* to the store discards it

vars == <<person, community, post, comment, comment_aggregates,
          community_person_ban, community_follower, comment_saved,
          person_block, community_block, comment_like, now, builder, calls,
          ret>>

entities == <<person, community, post>>
sides == <<community_person_ban, community_follower, comment_saved,
           person_block, community_block>>
building == <<builder, calls>>

NoRet == [op |-> "none"]
\* ------------------------------------------------------------ shared helpers
Max(a, b) == IF a >= b THEN a ELSE b
Min(a, b) == IF a <= b THEN a ELSE b

\* A left join on a key the schema keeps unique: the matching record or None.
LeftJoin(matches) == IF matches = {} THEN None ELSE Some(CHOOSE m \in matches : TRUE)

\* Fault variant of contained_by: ltree `a @> b`, the opposite direction.
contains(a, b) == Len(a) <= Len(b) /\ SubSeq(b, 1, Len(a)) = a

\* ltree `a <@ b`: a is b or a descendant of b, that is b is a prefix of a.
contained_by(a, b) == Len(b) <= Len(a) /\ SubSeq(a, 1, Len(b)) = b

\* CommunityFollower::to_subscribed_type
to_subscribed_type(follower) ==
  IF IsNone(follower) THEN "NotSubscribed"
  ELSE IF Unwrap(follower).pending THEN "Pending" ELSE "Subscribed"

\* content ILIKE fuzzy_search(term): a case-insensitive substring match.
ilike_fuzzy_search(content, term) ==
  \E i \in 1..(Len(content) + 1) :
    /\ i + Len(term) - 1 <= Len(content)
    /\ LowerStr(SubSeq(content, i, i + Len(term) - 1)) = LowerStr(term)

\* hot_rank(score, published): rises with the score, falls with the age.
hot_rank(score, published) == (100 * Max(1, 3 + score)) \div (Max(0, now - published) + 2)

\* limit_and_offset_unlimited(page, limit) -> (limit, offset); pages count from 1.
limit_and_offset_unlimited(page, limit) ==
  LET l == UnwrapOr(limit, FETCH_LIMIT_DEFAULT)
  IN  <<l, l * (UnwrapOr(page, 1) - 1)>>

\* Fault variant of person_id_join: without a viewer the joins use the id of
\* the first person.
person_id_joinFirstPerson(my_person_id) == UnwrapOr(my_person_id, 1)

\* let person_id_join = my_person_id.unwrap_or(PersonId(-1));
person_id_join(my_person_id) == UnwrapOr(my_person_id, NoPersonId)

\* ------------------------------------------------------- CommentView::read
\* The joined row of read(): comment, creator, post, community, aggregates and
\* the five left joins, for the comment `id` and the join identity `j`.
ReadBanJoin(id, cm) ==
  LeftJoin({b \in community_person_ban :
              /\ cm = b.community_id
              /\ b.person_id = comment[id].creator_id
              /\ (IsNone(b.expires) \/ Unwrap(b.expires) > now)})

\* Fault variant of ReadPersonBlockJoin: blocker and blocked exchanged.
ReadPersonBlockJoinSwapped(id, j) ==
  LeftJoin({b \in person_block :
              comment[id].creator_id = b.person_id /\ b.target_id = j})

ReadPersonBlockJoin(id, j) ==
  LeftJoin({b \in person_block :
              comment[id].creator_id = b.target_id /\ b.person_id = j})

ReadTuple(id, j) ==
  LET c == comment[id]
      cm == post[c.post_id].community_id
  IN  [ comment |-> id,
        creator |-> c.creator_id,
        post |-> c.post_id,
        community |-> cm,
        counts |-> comment_aggregates[id],
        creator_banned_from_community |-> ReadBanJoin(id, cm),
        follower |->
          LeftJoin({f \in community_follower :
                      cm = f.community_id /\ f.person_id = j}),
        saved |->
          LeftJoin({s \in comment_saved : id = s.comment_id /\ s.person_id = j}),
        creator_blocked |-> ReadPersonBlockJoin(id, j),
        comment_like |->
          LET m == {l \in comment_like : id = l.comment_id /\ l.person_id = j}
          IN  IF m = {} THEN None ELSE Some((CHOOSE l \in m : TRUE).score) ]

\* If a person is given, then my_vote, if None, should be 0, not null.
ReadMyVote(my_person_id, like) ==
  IF IsSome(my_person_id) /\ IsNone(like) THEN Some(0) ELSE like

ReadView(comment_id, my_person_id) ==
  LET t == ReadTuple(comment_id, person_id_join(my_person_id))
  IN  [ comment |-> t.comment,
        creator |-> t.creator,
        post |-> t.post,
        community |-> t.community,
        counts |-> t.counts,
        creator_banned_from_community |-> IsSome(t.creator_banned_from_community),
        subscribed |-> to_subscribed_type(t.follower),
        saved |-> IsSome(t.saved),
        creator_blocked |-> IsSome(t.creator_blocked),
        my_vote |-> ReadMyVote(my_person_id, t.comment_like) ]

\* comment::table.find(comment_id) ... .first(conn)?
ReadResult(comment_id, my_person_id) ==
  IF comment_id \in DOMAIN comment
  THEN Ok(ReadView(comment_id, my_person_id))
  ELSE Err("NotFound")

Read(comment_id, my_person_id) ==
  /\ ret' = [op |-> "read", comment_id |-> comment_id,
             my_person_id |-> my_person_id, res |-> ReadResult(comment_id, my_person_id)]
  /\ UNCHANGED <<entities, comment, comment_aggregates, sides, comment_like, now,
                 building>>
\* ------------------------------------------------------ CommentQueryBuilder
ListingTypes == {"Subscribed", "Local", "All", "Community"}
SortTypes == {"Hot", "Active", "New", "MostComments", "NewComments",
              "TopAll", "TopYear", "TopMonth", "TopWeek", "TopDay"}

\* CommentQueryBuilder::create
create ==
  [ listing_type |-> None, sort |-> None, community_id |-> None,
    community_actor_id |-> None, post_id |-> None, parent_path |-> None,
    creator_id |-> None, my_person_id |-> None, search_term |-> None,
    saved_only |-> None, show_bot_accounts |-> None, page |-> None,
    limit |-> None ]

\* Fault variant of sort: a call with None leaves the field as it was.
sortKeepsSome(self, v) == IF IsNone(v) THEN self ELSE [self EXCEPT !.sort = v]

\* The setters: each stores the optional value it is given in its own field.
listing_type(self, v) == [self EXCEPT !.listing_type = v]
sort(self, v) == [self EXCEPT !.sort = v]
post_id(self, v) == [self EXCEPT !.post_id = v]
creator_id(self, v) == [self EXCEPT !.creator_id = v]
community_id(self, v) == [self EXCEPT !.community_id = v]
my_person_id(self, v) == [self EXCEPT !.my_person_id = v]
community_actor_id(self, v) == [self EXCEPT !.community_actor_id = v]
search_term(self, v) == [self EXCEPT !.search_term = v]
saved_only(self, v) == [self EXCEPT !.saved_only = v]
show_bot_accounts(self, v) == [self EXCEPT !.show_bot_accounts = v]
parent_path(self, v) == [self EXCEPT !.parent_path = v]
page(self, v) == [self EXCEPT !.page = v]
limit(self, v) == [self EXCEPT !.limit = v]

\* The setter named `field` called on the builder `self` with the value v.
Setter(self, field, v) ==
  CASE field = "listing_type" -> listing_type(self, v)
    [] field = "sort" -> sort(self, v)
    [] field = "post_id" -> post_id(self, v)
    [] field = "creator_id" -> creator_id(self, v)
    [] field = "community_id" -> community_id(self, v)
    [] field = "my_person_id" -> my_person_id(self, v)
    [] field = "community_actor_id" -> community_actor_id(self, v)
    [] field = "search_term" -> search_term(self, v)
    [] field = "saved_only" -> saved_only(self, v)
    [] field = "show_bot_accounts" -> show_bot_accounts(self, v)
    [] field = "parent_path" -> parent_path(self, v)
    [] field = "page" -> page(self, v)
    [] field = "limit" -> limit(self, v)

\* Fault variant of ListBanJoin: the expiry of the ban is not looked at.
ListBanJoinExpired(id, cm) ==
  LeftJoin({b \in community_person_ban :
              /\ cm = b.community_id
              /\ b.person_id = comment[id].creator_id})

\* The joined row of list(): as in read(), plus the community_block join.
ListBanJoin(id, cm) ==
  LeftJoin({b \in community_person_ban :
              /\ cm = b.community_id
              /\ b.person_id = comment[id].creator_id
              /\ (IsNone(b.expires) \/ Unwrap(b.expires) > now)})

\* Fault variant of ListFollowerJoin: any follower of the community matches.
ListFollowerJoinAnyPerson(cm, j) ==
  LeftJoin({f \in community_follower : cm = f.community_id})

ListFollowerJoin(cm, j) ==
  LeftJoin({f \in community_follower : cm = f.community_id /\ f.person_id = j})

ListPersonBlockJoin(id, j) ==
  LeftJoin({b \in person_block :
              comment[id].creator_id = b.target_id /\ b.person_id = j})

ListCommunityBlockJoin(cm, j) ==
  LeftJoin({b \in community_block : cm = b.community_id /\ b.person_id = j})

ListTuple(id, j) ==
  LET c == comment[id]
      cm == post[c.post_id].community_id
  IN  [ comment |-> id,
        creator |-> c.creator_id,
        post |-> c.post_id,
        community |-> cm,
        counts |-> comment_aggregates[id],
        creator_banned_from_community |-> ListBanJoin(id, cm),
        follower |-> ListFollowerJoin(cm, j),
        saved |->
          LeftJoin({s \in comment_saved : id = s.comment_id /\ s.person_id = j}),
        creator_blocked |-> ListPersonBlockJoin(id, j),
        community_block |-> ListCommunityBlockJoin(cm, j),
        comment_like |->
          LET m == {l \in comment_like : id = l.comment_id /\ l.person_id = j}
          IN  IF m = {} THEN None ELSE Some((CHOOSE l \in m : TRUE).score) ]

\* if let Some(creator_id) = self.creator_id
CreatorFilter(self, t) ==
  IsSome(self.creator_id) => t.creator = Unwrap(self.creator_id)

\* if let Some(post_id) = self.post_id
PostFilter(self, t) ==
  IsSome(self.post_id) => t.post = Unwrap(self.post_id)

\* if let Some(parent_path) = self.parent_path
ParentPathFilter(self, t) ==
  IsSome(self.parent_path) =>
    contained_by(comment[t.comment].path, Unwrap(self.parent_path))

\* if let Some(search_term) = self.search_term
SearchTermFilter(self, t) ==
  IsSome(self.search_term) =>
    ilike_fuzzy_search(comment[t.comment].content, Unwrap(self.search_term))

\* Fault variant of SubscribedFilter: no filter at all.
SubscribedFilterOff(t) == TRUE

\* ListingType::Subscribed: community_follower::person_id.is_not_null()
SubscribedFilter(t) == IsSome(t.follower)

\* Fault variant of HiddenFilter: a follow record does not let a hidden
\* community in.
HiddenFilterVisibleOnly(t, j) == community[t.community].hidden = FALSE

\* community::hidden.eq(false).or(community_follower::person_id.eq(person_id_join))
HiddenFilter(t, j) ==
  \/ community[t.community].hidden = FALSE
  \/ (IsSome(t.follower) /\ Unwrap(t.follower).person_id = j)

\* ListingType::Community with at least one of the two identifiers
CommunityFilter(self, t) ==
  /\ IsSome(self.community_id) => t.community = Unwrap(self.community_id)
  /\ IsSome(self.community_actor_id) =>
       community[t.community].actor_id = Unwrap(self.community_actor_id)

\* Fault variant of ListingInvalid: either identifier missing is an error.
ListingInvalidEither(self) ==
  /\ self.listing_type = Some("Community")
  /\ (IsNone(self.community_actor_id) \/ IsNone(self.community_id))

\* return Err(QueryBuilderError("No community actor or id given"))
ListingInvalid(self) ==
  /\ self.listing_type = Some("Community")
  /\ IsNone(self.community_actor_id) /\ IsNone(self.community_id)

\* if let Some(listing_type) = self.listing_type { match listing_type ... }
ListingFilter(self, t, j) ==
  IF IsNone(self.listing_type) THEN TRUE
  ELSE CASE Unwrap(self.listing_type) = "Subscribed" -> SubscribedFilter(t)
         [] Unwrap(self.listing_type) = "Local" ->
              community[t.community].local = TRUE /\ HiddenFilter(t, j)
         [] Unwrap(self.listing_type) = "All" -> HiddenFilter(t, j)
         [] Unwrap(self.listing_type) = "Community" -> CommunityFilter(self, t)

\* if self.saved_only.unwrap_or(false)
SavedOnlyFilter(self, t) ==
  UnwrapOr(self.saved_only, FALSE) => IsSome(t.saved)

\* if !self.show_bot_accounts.unwrap_or(true)
BotFilter(self, t) ==
  (~UnwrapOr(self.show_bot_accounts, TRUE)) => person[t.creator].bot_account = FALSE

\* The interval the Top* sorts subtract from now; None for the other sorts.
SortWindow(s) ==
  CASE s = "TopYear" -> Some(Years1)
    [] s = "TopMonth" -> Some(Months1)
    [] s = "TopWeek" -> Some(Weeks1)
    [] s = "TopDay" -> Some(Days1)
    [] OTHER -> None

\* Fault variant of WindowFilter: the first day of the window is let in.
WindowFilterInclusive(self, t) ==
  LET w == SortWindow(UnwrapOr(self.sort, "New"))
  IN  IsSome(w) => comment[t.comment].published >= now - Unwrap(w)

\* .filter(comment::published.gt(now - 1.weeks())) and its three siblings
WindowFilter(self, t) ==
  LET w == SortWindow(UnwrapOr(self.sort, "New"))
  IN  IsSome(w) => comment[t.comment].published > now - Unwrap(w)

\* The ORDER BY of each sort, as the columns it orders by, all descending.
SortKey(self, t) ==
  LET s == UnwrapOr(self.sort, "New")
  IN  IF s \in {"Hot", "Active"}
      THEN <<hot_rank(t.counts.score, t.counts.published), t.counts.published>>
      ELSE IF s \in {"New", "MostComments", "NewComments"}
      THEN <<comment[t.comment].published>>
      ELSE <<t.counts.score>>

\* Fault variant of BlockFilter: blocked communities are not left out.
BlockFilterPersonsOnly(self, t) ==
  IsSome(self.my_person_id) => IsNone(t.creator_blocked)

\* Don't show blocked communities or persons
BlockFilter(self, t) ==
  IsSome(self.my_person_id) =>
    IsNone(t.community_block) /\ IsNone(t.creator_blocked)

\* The rows the composed query selects, before ORDER BY, LIMIT and OFFSET.
ListRows(self) ==
  LET j == person_id_join(self.my_person_id)
  IN  { t \in {ListTuple(id, j) : id \in DOMAIN comment} :
          /\ CreatorFilter(self, t)
          /\ PostFilter(self, t)
          /\ ParentPathFilter(self, t)
          /\ SearchTermFilter(self, t)
          /\ ListingFilter(self, t, j)
          /\ SavedOnlyFilter(self, t)
          /\ BotFilter(self, t)
          /\ WindowFilter(self, t)
          /\ BlockFilter(self, t) }

\* k1 sorts at or before k2 under ORDER BY ... DESC on every column.
KeyGeq(k1, k2) ==
  \/ k1[1] > k2[1]
  \/ k1[1] = k2[1] /\ (Len(k1) = 1 \/ k1[2] >= k2[2])

\* Every order the store may return the rows in: ORDER BY fixes the order of
\* rows with different keys and leaves the order of rows with equal keys open.
\* Any row no other row must precede can come first.
RECURSIVE Orderings(_, _)
Orderings(self, rows) ==
  IF rows = {} THEN {<<>>}
  ELSE UNION { {<<t>> \o s : s \in Orderings(self, rows \ {t})} :
               t \in {r \in rows :
                        \A u \in rows : KeyGeq(SortKey(self, r), SortKey(self, u))} }

\* query.limit(limit).offset(offset).load(conn)
LimitOffset(s, lim, off) ==
  IF off >= Len(s) THEN <<>> ELSE SubSeq(s, off + 1, Min(Len(s), off + lim))

\* ViewToVec::from_tuple_to_vec
from_tuple_to_vec(items) ==
  [ i \in 1..Len(items) |->
      [ comment |-> items[i].comment,
        creator |-> items[i].creator,
        post |-> items[i].post,
        community |-> items[i].community,
        counts |-> items[i].counts,
        creator_banned_from_community |-> IsSome(items[i].creator_banned_from_community),
        subscribed |-> to_subscribed_type(items[i].follower),
        saved |-> IsSome(items[i].saved),
        creator_blocked |-> IsSome(items[i].creator_blocked),
        my_vote |-> items[i].comment_like ] ]

\* Every result list() may give for the builder `self` on the present store.
ListResults(self) ==
  IF ListingInvalid(self)
  THEN {Err("QueryBuilderError")}
  ELSE LET lo == limit_and_offset_unlimited(self.page, self.limit)
       IN  { Ok(from_tuple_to_vec(LimitOffset(s, lo[1], lo[2]))) :
               s \in Orderings(self, ListRows(self)) }

\* CommentQueryBuilder::list
List(self) ==
  /\ \E res \in ListResults(self) : ret' = [op |-> "list", cfg |-> self, res |-> res]
  /\ UNCHANGED <<entities, comment, comment_aggregates, sides, comment_like, now,
                 building>>
\* ------------------------------------------------------- the store's writers
\* The external collaborators that write the tables the two queries read.
\* Every write discards the views returned before it.
Written(tables) == ret' = NoRet /\ UNCHANGED tables /\ UNCHANGED building

\* The aggregate score of a comment under the likes `likes`.
RECURSIVE SumScores(_)
SumScores(likes) ==
  IF likes = {} THEN 0
  ELSE LET l == CHOOSE x \in likes : TRUE
       IN  l.score + SumScores(likes \ {l})

Rescore(likes) ==
  [ id \in DOMAIN comment |->
      [comment_aggregates[id] EXCEPT
         !.score = SumScores({l \in likes : l.comment_id = id})] ]

\* CommentLike::like: one vote record per (person, comment)
Like(p, id, score) ==
  /\ id \in DOMAIN comment
  /\ [person_id |-> p, comment_id |-> id, score |-> score] \notin comment_like
  /\ \/ \E l \in comment_like : l.person_id = p /\ l.comment_id = id
     \/ Cardinality(comment_like) < MaxVotes
  /\ LET likes == {l \in comment_like : ~(l.person_id = p /\ l.comment_id = id)}
                    \cup {[person_id |-> p, comment_id |-> id, score |-> score]}
     IN  /\ comment_like' = likes
         /\ comment_aggregates' = Rescore(likes)
  /\ Written(<<entities, comment, sides, now>>)

\* CommentLike::remove
RemoveLike(p, id) ==
  /\ \E l \in comment_like : l.person_id = p /\ l.comment_id = id
  /\ LET likes == {l \in comment_like : ~(l.person_id = p /\ l.comment_id = id)}
     IN  /\ comment_like' = likes
         /\ comment_aggregates' = Rescore(likes)
  /\ Written(<<entities, comment, sides, now>>)

\* PersonBlock::block / unblock
BlockPerson(p, target) ==
  /\ p # target
  /\ [person_id |-> p, target_id |-> target] \notin person_block
  /\ Cardinality(person_block) < MaxBlocks
  /\ person_block' = person_block \cup {[person_id |-> p, target_id |-> target]}
  /\ Written(<<entities, comment, comment_aggregates, community_person_ban,
               community_follower, comment_saved, community_block, comment_like, now>>)

UnblockPerson(p, target) ==
  /\ [person_id |-> p, target_id |-> target] \in person_block
  /\ person_block' = person_block \ {[person_id |-> p, target_id |-> target]}
  /\ Written(<<entities, comment, comment_aggregates, community_person_ban,
               community_follower, comment_saved, community_block, comment_like, now>>)

\* CommunityBlock::block / unblock
BlockCommunity(p, cm) ==
  /\ [person_id |-> p, community_id |-> cm] \notin community_block
  /\ Cardinality(community_block) < MaxBlocks
  /\ community_block' = community_block \cup {[person_id |-> p, community_id |-> cm]}
  /\ Written(<<entities, comment, comment_aggregates, community_person_ban,
               community_follower, comment_saved, person_block, comment_like, now>>)

UnblockCommunity(p, cm) ==
  /\ [person_id |-> p, community_id |-> cm] \in community_block
  /\ community_block' = community_block \ {[person_id |-> p, community_id |-> cm]}
  /\ Written(<<entities, comment, comment_aggregates, community_person_ban,
               community_follower, comment_saved, person_block, comment_like, now>>)

\* CommunityFollower::follow / unfollow: one record per (community, person)
Follow(cm, p, pending) ==
  /\ ~\E f \in community_follower : f.community_id = cm /\ f.person_id = p
  /\ Cardinality(community_follower) < MaxFollows
  /\ community_follower' = community_follower \cup
       {[community_id |-> cm, person_id |-> p, pending |-> pending]}
  /\ Written(<<entities, comment, comment_aggregates, community_person_ban,
               comment_saved, person_block, community_block, comment_like, now>>)

Unfollow(cm, p) ==
  /\ \E f \in community_follower : f.community_id = cm /\ f.person_id = p
  /\ community_follower' =
       {f \in community_follower : ~(f.community_id = cm /\ f.person_id = p)}
  /\ Written(<<entities, comment, comment_aggregates, community_person_ban,
               comment_saved, person_block, community_block, comment_like, now>>)

\* CommentSaved::save / unsave
Save(id, p) ==
  /\ id \in DOMAIN comment
  /\ [comment_id |-> id, person_id |-> p] \notin comment_saved
  /\ Cardinality(comment_saved) < MaxSaves
  /\ comment_saved' = comment_saved \cup {[comment_id |-> id, person_id |-> p]}
  /\ Written(<<entities, comment, comment_aggregates, community_person_ban,
               community_follower, person_block, community_block, comment_like, now>>)

Unsave(id, p) ==
  /\ [comment_id |-> id, person_id |-> p] \in comment_saved
  /\ comment_saved' = comment_saved \ {[comment_id |-> id, person_id |-> p]}
  /\ Written(<<entities, comment, comment_aggregates, community_person_ban,
               community_follower, person_block, community_block, comment_like, now>>)

\* CommunityPersonBan::ban / unban: one record per (community, person)
Ban(cm, p, expires) ==
  /\ ~\E b \in community_person_ban : b.community_id = cm /\ b.person_id = p
  /\ Cardinality(community_person_ban) < MaxBans
  /\ community_person_ban' = community_person_ban \cup
       {[community_id |-> cm, person_id |-> p, expires |-> expires]}
  /\ Written(<<entities, comment, comment_aggregates, community_follower,
               comment_saved, person_block, community_block, comment_like, now>>)

Unban(cm, p) ==
  /\ \E b \in community_person_ban : b.community_id = cm /\ b.person_id = p
  /\ community_person_ban' =
       {b \in community_person_ban : ~(b.community_id = cm /\ b.person_id = p)}
  /\ Written(<<entities, comment, comment_aggregates, community_follower,
               comment_saved, person_block, community_block, comment_like, now>>)

\* Comment::create followed by Comment::update_ltree_path: the new comment's
\* path is its parent's path followed by its own id; a root's path is its id.
CreateComment(creator, pst, parent, published, content) ==
  LET id == Cardinality(DOMAIN comment) + 1
  IN  /\ published <= now
      /\ IsSome(parent) =>
           /\ Unwrap(parent) \in DOMAIN comment
           /\ comment[Unwrap(parent)].post_id = pst
           /\ comment[Unwrap(parent)].published <= published
      /\ comment' = [ i \in DOMAIN comment \cup {id} |->
           IF i # id THEN comment[i]
           ELSE [ creator_id |-> creator, post_id |-> pst,
                  path |-> (IF IsSome(parent) THEN comment[Unwrap(parent)].path
                            ELSE <<>>) \o <<id>>,
                  published |-> published, content |-> content ] ]
      /\ comment_aggregates' = [ i \in DOMAIN comment \cup {id} |->
           IF i # id THEN comment_aggregates[i]
           ELSE [score |-> 0, published |-> published] ]
      /\ Written(<<entities, sides, comment_like, now>>)

\* The store's clock moves on.
NowStart == Years1 + 1
Tick ==
  /\ now < NowStart + MaxTime
  /\ now' = now + 1
  /\ Written(<<entities, comment, comment_aggregates, sides, comment_like>>)

\* ------------------------------------------------------------ initial state
\* Two kinds of person and of community tables: the plain one of the tests
\* (nobody a bot, every community local and visible) and every table.
PlainPersons == {[p \in PersonIds |-> [bot_account |-> FALSE]]}
PlainCommunities ==
  {[c \in CommunityIds |-> [hidden |-> FALSE, local |-> TRUE, actor_id |-> 100 + c]]}

\* Post p belongs to community p.
InitWith(persons, communities) ==
  /\ person \in persons
  /\ community \in communities
  /\ post = [p \in PostIds |-> [community_id |-> p]]
  /\ comment = <<>>
  /\ comment_aggregates = <<>>
  /\ community_person_ban = {}
  /\ community_follower = {}
  /\ comment_saved = {}
  /\ person_block = {}
  /\ community_block = {}
  /\ comment_like = {}
  /\ now = NowStart
  /\ builder = create
  /\ calls = <<>>
  /\ ret = NoRet

Init == InitWith(PlainPersons, PlainCommunities)

\* Every community hidden or not, locally hosted or not.
AnyCommunities ==
  { [c \in CommunityIds |-> [hidden |-> h[c], local |-> l[c], actor_id |-> 100 + c]] :
      h \in [CommunityIds -> BOOLEAN], l \in [CommunityIds -> BOOLEAN] }
InitAnyCommunities == InitWith(PlainPersons, AnyCommunities)
\* ------------------------------------------------------------ specifications
NextId == Cardinality(DOMAIN comment) + 1
ViewerArgs == OptionOf(PersonIds)

\* The views are request-scoped: the caller uses them and drops them.  A
\* query's answer does not depend on the answer before it, so the
\* specifications take writes and queries from states with no answer pending.
Quiet == ret = NoRet
Discard ==
  /\ ret # NoRet
  /\ ret' = NoRet
  /\ UNCHANGED <<entities, comment, comment_aggregates, sides, comment_like, now,
                 building>>

\* Spec: votes.  Comments of person 1 under post 1, one a day; any person
\* votes and unvotes; any viewer reads one comment or lists the post.
VoteConfigs == {my_person_id(post_id(create, pp), v) : pp \in OptionOf({1}), v \in ViewerArgs}

AddComment ==
  /\ Quiet /\ NextId <= MaxComments
  /\ CreateComment(1, 1, None, NextId, <<1>>)

Vote == Quiet /\ \E p \in PersonIds, id \in CommentIds, sc \in Scores : Like(p, id, sc)
Unvote == Quiet /\ \E p \in PersonIds, id \in CommentIds : RemoveLike(p, id)
ReadAny == Quiet /\ \E id \in CommentIds, v \in ViewerArgs : Read(id, v)
ListVotes == Quiet /\ \E self \in VoteConfigs : List(self)

Next == AddComment \/ Vote \/ Unvote \/ ReadAny \/ ListVotes \/ Discard

Spec == Init /\ [][Next]_vars

\* SpecBlock: blocks.  Comments of any person under any post, one a day; any
\* person blocks and unblocks persons and communities; any viewer reads one
\* comment or lists, all comments or those of person 1.
BlockConfigs ==
  {creator_id(my_person_id(create, v), cr) : v \in ViewerArgs, cr \in OptionOf({1})}

AddCommentAnywhere ==
  /\ Quiet /\ NextId <= MaxComments
  /\ \E creator \in PersonIds, pst \in PostIds :
       CreateComment(creator, pst, None, NextId, <<1>>)

DoBlockPerson == Quiet /\ \E p, target \in PersonIds : BlockPerson(p, target)
DoUnblockPerson == Quiet /\ \E p, target \in PersonIds : UnblockPerson(p, target)
DoBlockCommunity ==
  Quiet /\ \E p \in PersonIds, cm \in CommunityIds : BlockCommunity(p, cm)
DoUnblockCommunity ==
  Quiet /\ \E p \in PersonIds, cm \in CommunityIds : UnblockCommunity(p, cm)

ListBlocks == Quiet /\ \E self \in BlockConfigs : List(self)

NextBlock ==
  \/ AddCommentAnywhere
  \/ DoBlockPerson \/ DoUnblockPerson \/ DoBlockCommunity \/ DoUnblockCommunity
  \/ ReadAny \/ ListBlocks \/ Discard

SpecBlock == Init /\ [][NextBlock]_vars

\* SpecTree: comment trees.  Person 1 builds a forest of comments under post
\* 1, one comment a day, each a root or a reply to any earlier comment; a
\* listing of the post names the path of one comment as parent_path.
TreeConfigs ==
  {parent_path(post_id(create, Some(1)), Some(comment[x].path)) : x \in DOMAIN comment}

AddReply ==
  /\ Quiet /\ NextId <= MaxTreeComments
  /\ \E parent \in OptionOf(DOMAIN comment) :
       CreateComment(1, 1, parent, NextId, <<1>>)

ListSubtree == Quiet /\ \E self \in TreeConfigs : List(self)

NextTree == AddReply \/ ListSubtree \/ Discard

SpecTree == Init /\ [][NextTree]_vars

\* SpecListing: listing scopes.  Comments of person 1 under any post, one a
\* day; any person follows and unfollows communities; a listing has scope
\* Community or Subscribed, with or without a viewer, a community id and a
\* community actor id.
ActorIds == {community[c].actor_id : c \in CommunityIds}
ListingConfigs ==
  { community_actor_id(community_id(my_person_id(listing_type(create, Some(lt)), v), ci), ca) :
      lt \in {"Community", "Subscribed"}, v \in ViewerArgs,
      ci \in OptionOf(CommunityIds), ca \in OptionOf(ActorIds) }

AddCommentInPost ==
  /\ Quiet /\ NextId <= MaxComments
  /\ \E pst \in PostIds : CreateComment(1, pst, None, NextId, <<1>>)

DoFollow ==
  Quiet /\ \E cm \in CommunityIds, p \in PersonIds, pending \in BOOLEAN :
             Follow(cm, p, pending)
DoUnfollow == Quiet /\ \E cm \in CommunityIds, p \in PersonIds : Unfollow(cm, p)

ListScoped == Quiet /\ \E self \in ListingConfigs : List(self)

NextListing == AddCommentInPost \/ DoFollow \/ DoUnfollow \/ ListScoped \/ Discard

SpecListing == Init /\ [][NextListing]_vars

\* SpecBan: bans.  Comments of person 1 under any post, one a day; any person
\* is banned from any community, for good or until the day after the clock's
\* start, and unbanned; the clock moves on; anybody reads one comment or lists
\* all comments.
BanExpiries == {None, Some(NowStart + 1)}
BanConfigs == {my_person_id(create, v) : v \in ViewerArgs}

DoBan ==
  Quiet /\ \E cm \in CommunityIds, p \in PersonIds, expires \in BanExpiries :
             Ban(cm, p, expires)
DoUnban == Quiet /\ \E cm \in CommunityIds, p \in PersonIds : Unban(cm, p)
DoTick == Quiet /\ Tick
ListAll == Quiet /\ \E self \in BanConfigs : List(self)

NextBan ==
  AddCommentInPost \/ DoBan \/ DoUnban \/ DoTick \/ ReadAny \/ ListAll \/ Discard

SpecBan == Init /\ [][NextBan]_vars

\* SpecTop: windowed top sorts.  Comments of person 1 under post 1 arrive in
\* the order of their publication, each published on the last day outside or
\* the first day inside one of the four windows; person 1 votes them up and
\* down; a listing sorts by one of the four windowed sorts.
WindowEdges ==
  UNION {{NowStart - w, NowStart - w + 1} : w \in {Days1, Weeks1, Months1, Years1}}
TopConfigs == {sort(create, Some(st)) : st \in {"TopYear", "TopMonth", "TopWeek", "TopDay"}}

AddCommentPublished ==
  /\ Quiet /\ NextId <= MaxComments
  /\ \E published \in WindowEdges :
       /\ \A id \in DOMAIN comment : comment[id].published <= published
       /\ CreateComment(1, 1, None, published, <<1>>)

VoteByOne == Quiet /\ \E id \in CommentIds, sc \in {-1, 1} : Like(1, id, sc)
UnvoteByOne == Quiet /\ \E id \in CommentIds : RemoveLike(1, id)
ListTop == Quiet /\ \E self \in TopConfigs : List(self)

NextTop == AddCommentPublished \/ VoteByOne \/ UnvoteByOne \/ ListTop \/ Discard

SpecTop == Init /\ [][NextTop]_vars

\* SpecPage: pagination.  Comments of person 1 under post 1, one a day;
\* person 1 votes them up and down; listings sort by recency, by score or by
\* hot rank and ask for any page of any size, or for the default page.
PageConfigs ==
  { limit(page(sort(create, st), pg), lm) :
      st \in OptionOf({"TopAll", "Hot"}),
      pg \in OptionOf(1..MaxPage), lm \in OptionOf(1..MaxLimit) }

ListPage == \E self \in PageConfigs : List(self)

NextPage == AddComment \/ VoteByOne \/ UnvoteByOne \/ ListPage \/ Discard

SpecPage == Init /\ [][NextPage]_vars

\* SpecScope: the scopes All and Local.  Each community is hidden or not and
\* locally hosted or not; comments of person 1 under any post, one a day; any
\* person follows and unfollows communities; a listing has scope All or Local,
\* with or without a viewer.
ScopeConfigs ==
  { my_person_id(listing_type(create, Some(lt)), v) :
      lt \in {"All", "Local"}, v \in ViewerArgs }

ListInScope == Quiet /\ \E self \in ScopeConfigs : List(self)

NextScope == AddCommentInPost \/ DoFollow \/ DoUnfollow \/ ListInScope \/ Discard

SpecScope == InitAnyCommunities /\ [][NextScope]_vars

\* SpecBuilder: the builder.  Comments of person 1 under post 1, one a day; a
\* caller creates a builder, calls any setters on it in any order, each with
\* None or with a value, and lists with it.
Create ==
  /\ Quiet /\ calls # <<>>
  /\ builder' = create
  /\ calls' = <<>>
  /\ UNCHANGED <<entities, comment, comment_aggregates, sides, comment_like, now, ret>>

Call(field, v) ==
  /\ Quiet /\ Len(calls) < MaxCalls
  /\ builder' = Setter(builder, field, v)
  /\ calls' = Append(calls, <<field, v>>)
  /\ UNCHANGED <<entities, comment, comment_aggregates, sides, comment_like, now, ret>>

CallListingType == \E v \in OptionOf({"Community", "Subscribed"}) : Call("listing_type", v)
CallSort == \E v \in OptionOf({"TopAll", "TopDay"}) : Call("sort", v)
CallPostId == \E v \in OptionOf({2}) : Call("post_id", v)
CallCreatorId == \E v \in OptionOf({2}) : Call("creator_id", v)
CallCommunityId == \E v \in OptionOf({1}) : Call("community_id", v)
CallMyPersonId == \E v \in OptionOf({1}) : Call("my_person_id", v)
CallCommunityActorId == \E v \in OptionOf({community[2].actor_id}) : Call("community_actor_id", v)
CallSearchTerm == \E v \in OptionOf({<<2>>}) : Call("search_term", v)
CallSavedOnly == \E v \in OptionOf({TRUE}) : Call("saved_only", v)
CallShowBotAccounts == \E v \in OptionOf({FALSE}) : Call("show_bot_accounts", v)
CallParentPath == \E v \in OptionOf({<<2>>}) : Call("parent_path", v)
CallPage == \E v \in OptionOf({2}) : Call("page", v)
CallLimit == \E v \in OptionOf({1}) : Call("limit", v)

ListBuilt == Quiet /\ List(builder)

NextBuilder ==
  \/ AddComment \/ Create
  \/ CallListingType \/ CallSort \/ CallPostId \/ CallCreatorId \/ CallCommunityId
  \/ CallMyPersonId \/ CallCommunityActorId \/ CallSearchTerm \/ CallSavedOnly
  \/ CallShowBotAccounts \/ CallParentPath \/ CallPage \/ CallLimit
  \/ ListBuilt \/ Discard

SpecBuilder == Init /\ [][NextBuilder]_vars

\* SpecViewer: the viewer's side records.  Comments of person 1 under post 1,
\* one a day; any person follows and unfollows communities, saves and unsaves
\* comments, blocks and unblocks persons; person 1 votes; anybody or nobody
\* reads one comment or lists all comments.
AddViewedComment ==
  /\ Quiet /\ NextId <= MaxViewedComments
  /\ CreateComment(1, 1, None, NextId, <<1>>)

DoSave == Quiet /\ \E id \in CommentIds, p \in PersonIds : Save(id, p)
DoUnsave == Quiet /\ \E id \in CommentIds, p \in PersonIds : Unsave(id, p)

NextViewer ==
  \/ AddViewedComment
  \/ DoFollow \/ DoUnfollow \/ DoSave \/ DoUnsave
  \/ DoBlockPerson \/ DoUnblockPerson \/ VoteByOne \/ UnvoteByOne
  \/ ReadAny \/ ListAll \/ Discard

SpecViewer == Init /\ [][NextViewer]_vars

\* ------------------------------------------------------------------- claims
IsRead == ret.op = "read"
IsList == ret.op = "list"
IsListOk == ret.op = "list" /\ ret.res.ok
\* The comment ids of the rows a successful list() returned.
ListedIds == {ret.res.val[i].comment : i \in 1..Len(ret.res.val)}

\* The three-way rule for the viewer argument v and the comment id.
VoteRecords(v, id) == {l \in comment_like : l.person_id = Unwrap(v) /\ l.comment_id = id}
ExpectedMyVote(v, id) ==
  IF IsNone(v) THEN None
  ELSE IF VoteRecords(v, id) = {} THEN Some(0)
  ELSE Some((CHOOSE l \in VoteRecords(v, id) : TRUE).score)

\* C1: in every store state reached by votes and unvotes, read() and every
\* row of list() give my_vote = None without a viewer, Some(0) for a viewer
\* with no vote record on the comment, Some(record.score) for a viewer with one.
C1_MyVoteThreeWayRule ==
  /\ (IsRead /\ ret.res.ok) =>
       ret.res.val.my_vote = ExpectedMyVote(ret.my_person_id, ret.comment_id)
  /\ IsListOk =>
       \A i \in 1..Len(ret.res.val) :
         ret.res.val[i].my_vote =
           ExpectedMyVote(ret.cfg.my_person_id, ret.res.val[i].comment)
CommunityOf(id) == post[comment[id].post_id].community_id
PersonBlocked(v, id) ==
  [person_id |-> Unwrap(v), target_id |-> comment[id].creator_id] \in person_block
CommunityBlocked(v, id) ==
  [person_id |-> Unwrap(v), community_id |-> CommunityOf(id)] \in community_block

\* C2: a list() for viewer V returns no row whose creator V has blocked and no
\* row of a community V has blocked; a list() without a viewer leaves out no
\* row because of a block record (every comment the creator filter admits is
\* returned, whatever the block tables hold).
C2_ListExcludesBlocked ==
  IsListOk =>
    /\ IsSome(ret.cfg.my_person_id) =>
         \A id \in ListedIds :
           ~PersonBlocked(ret.cfg.my_person_id, id)
           /\ ~CommunityBlocked(ret.cfg.my_person_id, id)
    /\ IsNone(ret.cfg.my_person_id) =>
         ListedIds = {id \in DOMAIN comment :
                        IsSome(ret.cfg.creator_id) =>
                          comment[id].creator_id = Unwrap(ret.cfg.creator_id)}

\* A viewer's listing that left out a comment of a blocked community and kept
\* another comment.
C2_Witness ==
  /\ IsListOk /\ IsSome(ret.cfg.my_person_id)
  /\ ListedIds # {}
  /\ \E id \in DOMAIN comment \ ListedIds : CommunityBlocked(ret.cfg.my_person_id, id)
  /\ \E id \in DOMAIN comment \ ListedIds : PersonBlocked(ret.cfg.my_person_id, id)

\* C3: read(id, Some(V)) of an existing comment succeeds whether or not V has
\* blocked its creator, and creator_blocked tells exactly whether V has.
C3_ReadReportsCreatorBlocked ==
  (IsRead /\ ret.comment_id \in DOMAIN comment /\ IsSome(ret.my_person_id)) =>
    /\ ret.res.ok
    /\ ret.res.val.comment = ret.comment_id
    /\ ret.res.val.creator_blocked = PersonBlocked(ret.my_person_id, ret.comment_id)

\* A read by a viewer who has blocked the comment's creator.
C3_Witness ==
  /\ IsRead /\ ret.comment_id \in DOMAIN comment /\ IsSome(ret.my_person_id)
  /\ PersonBlocked(ret.my_person_id, ret.comment_id)
  /\ ret.res.ok /\ ret.res.val.creator_blocked
\* The parent of a comment, read off its path (0 for a root), and the
\* subtree of x: x and everything reached from x by parent links.
ParentOf(id) ==
  IF Len(comment[id].path) = 1 THEN 0
  ELSE comment[id].path[Len(comment[id].path) - 1]

RECURSIVE InSubtree(_, _)
InSubtree(x, y) ==
  \/ y = x
  \/ ParentOf(y) # 0 /\ InSubtree(x, ParentOf(y))

\* The path-prefix invariant of the comment table.
PathPrefixInvariant ==
  \A id \in DOMAIN comment :
    /\ comment[id].path[Len(comment[id].path)] = id
    /\ ParentOf(id) # 0 =>
         /\ ParentOf(id) \in DOMAIN comment
         /\ comment[id].path = comment[ParentOf(id)].path \o <<id>>

\* C4: on a comment table with the path-prefix invariant, list() with
\* parent_path = X.path returns exactly X and the descendants of X.
C4_SubtreeListing ==
  /\ PathPrefixInvariant
  /\ (IsListOk /\ IsSome(ret.cfg.parent_path)) =>
       \A x \in DOMAIN comment :
         comment[x].path = Unwrap(ret.cfg.parent_path) =>
           /\ ListedIds = {y \in DOMAIN comment : InSubtree(x, y)}
           /\ Len(ret.res.val) = Cardinality(ListedIds)

\* The tree R -> {A, B}, A -> {C, D} listed under A: three rows of five.
C4_Witness ==
  /\ IsListOk /\ IsSome(ret.cfg.parent_path)
  /\ Cardinality(DOMAIN comment) = 5
  /\ \E r, a, b, c, d \in DOMAIN comment :
       /\ Cardinality({r, a, b, c, d}) = 5
       /\ ParentOf(r) = 0 /\ ParentOf(a) = r /\ ParentOf(b) = r
       /\ ParentOf(c) = a /\ ParentOf(d) = a
       /\ Unwrap(ret.cfg.parent_path) = comment[a].path
       /\ ListedIds = {a, c, d}
IsScope(lt) == IsList /\ ret.cfg.listing_type = Some(lt)
\* The comments of the communities that match every identifier configured.
InConfiguredCommunity(id) ==
  /\ IsSome(ret.cfg.community_id) => CommunityOf(id) = Unwrap(ret.cfg.community_id)
  /\ IsSome(ret.cfg.community_actor_id) =>
       community[CommunityOf(id)].actor_id = Unwrap(ret.cfg.community_actor_id)

\* C5: list() with scope Community fails with the query-builder error exactly
\* when neither a community id nor a community actor id is configured;
\* otherwise it succeeds and its rows are the comments of the community that
\* matches every identifier supplied.
C5_CommunityScope ==
  IsScope("Community") =>
    /\ ret.res.ok = ~(IsNone(ret.cfg.community_id) /\ IsNone(ret.cfg.community_actor_id))
    /\ ~ret.res.ok => ret.res.err = "QueryBuilderError"
    /\ ret.res.ok => ListedIds = {id \in DOMAIN comment : InConfiguredCommunity(id)}

\* Both identifiers supplied, of two different communities that both hold
\* comments: an empty result, not an error.
C5_Witness ==
  /\ IsScope("Community")
  /\ IsSome(ret.cfg.community_id) /\ IsSome(ret.cfg.community_actor_id)
  /\ community[Unwrap(ret.cfg.community_id)].actor_id # Unwrap(ret.cfg.community_actor_id)
  /\ \A cm \in CommunityIds : \E id \in DOMAIN comment : CommunityOf(id) = cm
  /\ ret.res.ok /\ ret.res.val = <<>>

\* C6 as claimed: list() with scope Subscribed and no viewer fails with the
\* query-builder error.
C6_SubscribedAnonymousFails ==
  (IsScope("Subscribed") /\ IsNone(ret.cfg.my_person_id)) =>
    /\ ~ret.res.ok
    /\ ret.res.err = "QueryBuilderError"

\* C6 as amended: list() with scope Subscribed and no viewer succeeds and
\* returns no row, whatever follow records the persons of the store have.
C6_SubscribedAnonymousEmpty ==
  (IsScope("Subscribed") /\ IsNone(ret.cfg.my_person_id)) =>
    /\ ret.res.ok
    /\ ret.res.val = <<>>

\* An anonymous Subscribed listing of a store with a comment in a community
\* that somebody follows.
C6_Witness ==
  /\ IsScope("Subscribed") /\ IsNone(ret.cfg.my_person_id)
  /\ \E id \in DOMAIN comment, f \in community_follower :
       f.community_id = CommunityOf(id)
  /\ ret.res.ok

Follows(p, cm) == \E f \in community_follower : f.community_id = cm /\ f.person_id = p

\* C7: list() with scope Subscribed and viewer V succeeds and returns only
\* comments of communities V itself follows: none of a community that only
\* other persons follow.
C7_SubscribedIsViewerScoped ==
  (IsScope("Subscribed") /\ IsSome(ret.cfg.my_person_id)) =>
    /\ ret.res.ok
    /\ \A id \in ListedIds : Follows(Unwrap(ret.cfg.my_person_id), CommunityOf(id))

\* V follows one community, another person follows a different one, both hold
\* comments, and V's Subscribed listing leaves out the other person's.
C7_Witness ==
  /\ IsScope("Subscribed") /\ IsSome(ret.cfg.my_person_id)
  /\ ret.res.ok /\ ListedIds # {}
  /\ \E id \in DOMAIN comment \ ListedIds, p \in PersonIds :
       /\ p # Unwrap(ret.cfg.my_person_id)
       /\ Follows(p, CommunityOf(id))
       /\ ~Follows(Unwrap(ret.cfg.my_person_id), CommunityOf(id))
\* A ban of the comment's creator from the comment's community that has no
\* expiry or expires strictly after the query time.
ActiveBan(id) ==
  \E b \in community_person_ban :
    /\ b.community_id = CommunityOf(id)
    /\ b.person_id = comment[id].creator_id
    /\ (b.expires = None \/ Unwrap(b.expires) > now)

\* C8: in every view of read() and list(), creator_banned_from_community is
\* true exactly when an active ban of the creator from the comment's community
\* exists at query time, and a listing without filters returns every comment,
\* banned creator or not.
C8_BanIsDisplayedNotFiltered ==
  /\ (IsRead /\ ret.res.ok) =>
       ret.res.val.creator_banned_from_community = ActiveBan(ret.comment_id)
  /\ IsListOk =>
       /\ \A i \in 1..Len(ret.res.val) :
            ret.res.val[i].creator_banned_from_community =
              ActiveBan(ret.res.val[i].comment)
       /\ ListedIds = DOMAIN comment

\* A listing that shows a comment whose creator is banned from its community
\* and a comment whose creator's ban from its community has expired, while the
\* same creator is still banned from the other community.
C8_Witness ==
  /\ IsListOk
  /\ \E i, k \in 1..Len(ret.res.val) :
       /\ ret.res.val[i].creator_banned_from_community
       /\ ~ret.res.val[k].creator_banned_from_community
       /\ \E b \in community_person_ban :
            /\ b.community_id = ret.res.val[k].community
            /\ b.person_id = ret.res.val[k].creator
            /\ b.expires # None /\ Unwrap(b.expires) <= now
       /\ ret.res.val[i].creator = ret.res.val[k].creator
       /\ ret.res.val[i].community # ret.res.val[k].community
\* The length in days of the window of a windowed top sort.
WindowOf(st) ==
  CASE st = "TopDay" -> Days1
    [] st = "TopWeek" -> Weeks1
    [] st = "TopMonth" -> Months1
    [] st = "TopYear" -> Years1

IsTopWindowed ==
  /\ IsListOk /\ IsSome(ret.cfg.sort)
  /\ Unwrap(ret.cfg.sort) \in {"TopDay", "TopWeek", "TopMonth", "TopYear"}

\* C9: list() with a windowed top sort at query time T returns no comment
\* published at or before T minus the window, returns every comment published
\* after it, each once, and in an order of non-increasing score.
C9_TopWindow ==
  IsTopWindowed =>
    /\ ListedIds = {id \in DOMAIN comment :
                      comment[id].published > now - WindowOf(Unwrap(ret.cfg.sort))}
    /\ Len(ret.res.val) = Cardinality(ListedIds)
    /\ \A i, k \in 1..Len(ret.res.val) :
         i < k => ret.res.val[i].counts.score >= ret.res.val[k].counts.score

\* A TopWeek listing of a store with a comment published exactly a week
\* before, which it leaves out, that returns two comments of different score,
\* the later published one first.
C9_Witness ==
  /\ IsTopWindowed /\ ret.cfg.sort = Some("TopWeek")
  /\ \E id \in DOMAIN comment \ ListedIds : comment[id].published = now - Weeks1
  /\ Len(ret.res.val) = 2
  /\ ret.res.val[1].counts.score > ret.res.val[2].counts.score
  /\ comment[ret.res.val[1].comment].published > comment[ret.res.val[2].comment].published

\* The rows at positions [(p-1)*n, p*n) of the sequence s.
PageOf(s, p, n) ==
  [i \in 1..Max(0, Min(Len(s), p * n) - (p - 1) * n) |-> s[(p - 1) * n + i]]

\* C10: against an unchanged store, list() with page p and limit n returns the
\* rows at positions [(p-1)*n, p*n) of what list() returns for the same
\* configuration without page and limit (the full sequence: the default page
\* size exceeds the number of comments).
C10_PageOfFullSequence ==
  [][ ( /\ ret.op = "list" /\ ret'.op = "list"
        /\ ret.res.ok /\ ret'.res.ok
        /\ IsNone(ret.cfg.page) /\ IsNone(ret.cfg.limit)
        /\ IsSome(ret'.cfg.page) /\ IsSome(ret'.cfg.limit)
        /\ ret'.cfg = [ret.cfg EXCEPT !.page = ret'.cfg.page, !.limit = ret'.cfg.limit] )
      => ret'.res.val = PageOf(ret.res.val, Unwrap(ret'.cfg.page), Unwrap(ret'.cfg.limit))
    ]_vars

\* The eligibility of a comment under the scopes All and Local for the viewer
\* argument v.
ViewerFollows(v, cm) == IsSome(v) /\ Follows(Unwrap(v), cm)
EligibleAll(v, id) ==
  ~community[CommunityOf(id)].hidden \/ ViewerFollows(v, CommunityOf(id))
EligibleLocal(v, id) ==
  community[CommunityOf(id)].local /\ EligibleAll(v, id)

\* C11: list() with scope All returns exactly the comments whose community is
\* not hidden or has a follow record of the viewer; with scope Local exactly
\* those of them whose community is locally hosted; without a viewer neither
\* scope returns a comment of a hidden community.
C11_HiddenAndLocalScopes ==
  /\ IsScope("All") =>
       /\ ret.res.ok
       /\ ListedIds = {id \in DOMAIN comment : EligibleAll(ret.cfg.my_person_id, id)}
  /\ IsScope("Local") =>
       /\ ret.res.ok
       /\ ListedIds = {id \in DOMAIN comment : EligibleLocal(ret.cfg.my_person_id, id)}
  /\ ((IsScope("All") \/ IsScope("Local")) /\ IsNone(ret.cfg.my_person_id)) =>
       \A id \in ListedIds : ~community[CommunityOf(id)].hidden

\* Both communities hidden and locally hosted, both holding comments, the
\* viewer following one and another person the other: the viewer's Local
\* listing returns the comments of the community the viewer follows only.
C11_Witness ==
  /\ IsScope("Local") /\ IsSome(ret.cfg.my_person_id) /\ ret.res.ok
  /\ \A cm \in CommunityIds : community[cm].hidden /\ community[cm].local
  /\ \E id \in ListedIds : ViewerFollows(ret.cfg.my_person_id, CommunityOf(id))
  /\ \E id \in DOMAIN comment \ ListedIds, p \in PersonIds :
       /\ Follows(p, CommunityOf(id))
       /\ ~ViewerFollows(ret.cfg.my_person_id, CommunityOf(id))

\* The value the calls cs leave in each field: that of the last call on the
\* field, None when no call names it.
LastOn(cs, field) ==
  LET on == {i \in 1..Len(cs) : cs[i][1] = field}
  IN  IF on = {} THEN None
      ELSE cs[CHOOSE i \in on : \A k \in on : k <= i][2]
LastWrite(cs) == [field \in DOMAIN create |-> LastOn(cs, field)]

\* The builder after the calls cs on a new builder, and cs with the calls at
\* i and i + 1 exchanged.
RECURSIVE ApplyCalls(_)
ApplyCalls(cs) ==
  IF cs = <<>> THEN create
  ELSE Setter(ApplyCalls(SubSeq(cs, 1, Len(cs) - 1)), cs[Len(cs)][1], cs[Len(cs)][2])
Exchanged(cs, i) ==
  [k \in 1..Len(cs) |-> IF k = i THEN cs[i + 1] ELSE IF k = i + 1 THEN cs[i] ELSE cs[k]]

\* C12: after any sequence of setter calls the builder holds in each field
\* the value of the last call on that field (None after a call with None, or
\* after no call); exchanging two neighbouring calls on different fields
\* gives the same builder; and list() runs with that configuration, so its
\* result is one the last values alone determine on the present store: the
\* only one when the sort is left at its default, where no two comments have
\* the same sort key (under a sort by score the store chooses the order of
\* the comments of equal score).
C12_LastWriteWins ==
  /\ builder = LastWrite(calls)
  /\ builder = ApplyCalls(calls)
  /\ \A i \in 1..(Len(calls) - 1) :
       calls[i][1] # calls[i + 1][1] => ApplyCalls(Exchanged(calls, i)) = builder
  /\ IsList =>
       /\ ret.cfg = LastWrite(calls)
       /\ ret.res \in ListResults(LastWrite(calls))
       /\ IsNone(LastOn(calls, "sort")) => ListResults(LastWrite(calls)) = {ret.res}

\* A listing after a page size of one was set and then cleared with None: it
\* runs without a page size and returns every comment of the store.
C12_Witness ==
  /\ IsListOk /\ Len(calls) = 2
  /\ calls[1][1] = "limit" /\ IsSome(calls[1][2])
  /\ calls[2] = <<"limit", None>>
  /\ IsNone(ret.cfg.limit)
  /\ Cardinality(DOMAIN comment) >= 2
  /\ Len(ret.res.val) = Cardinality(DOMAIN comment)

\* The viewer-scoped fields of a view as a query without a viewer gives them.
AnonymousView(view) ==
  /\ view.subscribed = "NotSubscribed"
  /\ view.saved = FALSE
  /\ view.creator_blocked = FALSE
  /\ view.my_vote = None

\* C13: without a viewer the joins run under PersonId(-1), an id no follow,
\* save, block or vote record carries; so whatever such records the persons
\* of the store have, read() of an existing comment and list() succeed, every
\* view they return has subscribed = NotSubscribed, saved = false,
\* creator_blocked = false and my_vote = None, and list() leaves out no comment.
C13_AnonymousViewer ==
  /\ \A r \in community_follower \cup comment_saved \cup person_block \cup comment_like :
       r.person_id # NoPersonId
  /\ (IsRead /\ IsNone(ret.my_person_id) /\ ret.comment_id \in DOMAIN comment) =>
       /\ ret.res.ok
       /\ AnonymousView(ret.res.val)
  /\ (IsList /\ IsNone(ret.cfg.my_person_id)) =>
       /\ ret.res.ok
       /\ \A i \in 1..Len(ret.res.val) : AnonymousView(ret.res.val[i])
       /\ ListedIds = DOMAIN comment

\* A listing without a viewer that returns a comment which a person has voted
\* on and saved, whose community the person follows and whose creator another
\* person has blocked.
C13_Witness ==
  /\ IsListOk /\ IsNone(ret.cfg.my_person_id)
  /\ \E id \in ListedIds, p \in PersonIds :
       /\ VoteRecords(Some(p), id) # {}
       /\ [comment_id |-> id, person_id |-> p] \in comment_saved
       /\ Follows(p, CommunityOf(id))
       /\ \E q \in PersonIds : PersonBlocked(Some(q), id)
====
